---- MODULE Spec2Model ----
(***************************************************************************)
(* Transcript classification pipeline of the Bainum backend: the lexical   *)
(* keyword matcher and score normaliser of lib/transcriptProcessor.js, and *)
(* the two audio controllers (classroomWhisperController, revaiController) *)
(* that run transcription, lexical scoring, the optional semantic (RAG)    *)
(* step, score fusion and segment selection for each upload request.       *)
(***************************************************************************)
EXTENDS Integers, Sequences, FiniteSets, TLC

(***************************************************************************)
(* JavaScript values.  A string is a TLA+ string, one character per        *)
(* position; null, undefined and numbers are the non-string values a       *)
(* transcript or an environment variable can be.  An optional value        *)
(* (null or a value) is a sequence of length 0 or 1.                       *)
(***************************************************************************)
JsString(s) == [type |-> "string", str |-> s, num |-> 0]
JsNull == [type |-> "null", str |-> "", num |-> 0]
JsUndefined == [type |-> "undefined", str |-> "", num |-> 0]
JsNumber(n) == [type |-> "number", str |-> "", num |-> n]

Null == <<>>
Some(v) == <<v>>

\* typeof v === 'string'
IsString(v) == v.type = "string"

\* JavaScript truthiness: "", null, undefined and 0 are falsy
Truthy(v) ==
  CASE v.type = "string" -> Len(v.str) > 0
    [] v.type = "number" -> v.num # 0
    [] OTHER -> FALSE

\* v || ""
OrEmptyString(v) == IF Truthy(v) THEN v ELSE JsString("")

CharAt(s, i) == SubSeq(s, i, i)

\* String.prototype.includes
Includes(s, sub) ==
  \E i \in 1..(Len(s) - Len(sub) + 1) : SubSeq(s, i, i + Len(sub) - 1) = sub

\* \w of a RegExp without the u flag: [A-Za-z0-9_]
IsWordChar(c) ==
  c \in {"a", "b", "c", "d", "e", "f", "g", "h", "i", "j", "k", "l", "m",
         "n", "o", "p", "q", "r", "s", "t", "u", "v", "w", "x", "y", "z",
         "A", "B", "C", "D", "E", "F", "G", "H", "I", "J", "K", "L", "M",
         "N", "O", "P", "Q", "R", "S", "T", "U", "V", "W", "X", "Y", "Z",
         "0", "1", "2", "3", "4", "5", "6", "7", "8", "9", "_"}

\* \s of a RegExp, and the characters String.prototype.trim strips
IsWhiteSpace(c) == c \in {" ", "\t", "\n", "\r"}

\* U+212A KELVIN SIGN, a letter outside ASCII whose lower-case form is "k".
\* The strings of this module are ASCII, so "#" stands for it and the number
\* sign itself is not in the alphabet of the transcripts.
KelvinSign == "#"

\* String.prototype.toLowerCase, one character
toLowerCaseChar(c) ==
  CASE c = "A" -> "a" [] c = "B" -> "b" [] c = "C" -> "c" [] c = "D" -> "d"
    [] c = "E" -> "e" [] c = "F" -> "f" [] c = "G" -> "g" [] c = "H" -> "h"
    [] c = "I" -> "i" [] c = "J" -> "j" [] c = "K" -> "k" [] c = "L" -> "l"
    [] c = "M" -> "m" [] c = "N" -> "n" [] c = "O" -> "o" [] c = "P" -> "p"
    [] c = "Q" -> "q" [] c = "R" -> "r" [] c = "S" -> "s" [] c = "T" -> "t"
    [] c = "U" -> "u" [] c = "V" -> "v" [] c = "W" -> "w" [] c = "X" -> "x"
    [] c = "Y" -> "y" [] c = "Z" -> "z" [] c = KelvinSign -> "k" [] OTHER -> c

\* String.prototype.toLowerCase (halving keeps the evaluation shallow)
RECURSIVE toLowerCase(_)
toLowerCase(s) ==
  IF Len(s) = 0 THEN ""
  ELSE IF Len(s) = 1 THEN toLowerCaseChar(s)
  ELSE LET h == Len(s) \div 2
       IN toLowerCase(SubSeq(s, 1, h)) \o toLowerCase(SubSeq(s, h + 1, Len(s)))

\* Canonicalize of the RegExp i flag (no u flag): the upper-case form; a
\* character outside ASCII (KelvinSign) is never mapped into ASCII
Canonicalize(c) ==
  CASE c = "e" -> "E" [] c = "t" -> "T" [] c = "a" -> "A" [] c = "o" -> "O"
    [] c = "i" -> "I" [] c = "n" -> "N" [] c = "s" -> "S" [] c = "r" -> "R"
    [] c = "h" -> "H" [] c = "l" -> "L" [] c = "d" -> "D" [] c = "c" -> "C"
    [] c = "u" -> "U" [] c = "m" -> "M" [] c = "f" -> "F" [] c = "p" -> "P"
    [] c = "g" -> "G" [] c = "w" -> "W" [] c = "y" -> "Y" [] c = "b" -> "B"
    [] c = "v" -> "V" [] c = "k" -> "K" [] c = "x" -> "X" [] c = "j" -> "J"
    [] c = "q" -> "Q" [] c = "z" -> "Z" [] OTHER -> c

\* String.prototype.trim
trim(s) ==
  LET keep == {i \in 1..Len(s) : ~IsWhiteSpace(CharAt(s, i))}
  IN IF keep = {} THEN ""
     ELSE SubSeq(s, CHOOSE i \in keep : \A j \in keep : i <= j,
                    CHOOSE i \in keep : \A j \in keep : i >= j)

\* keyword.includes(' ')
IncludesSpace(s) == Includes(s, " ")

(***************************************************************************)
(* lib/transcriptProcessor.js: the keyword taxonomy, in source order.      *)
(***************************************************************************)
KW_science ==
  <<
    "experiment", "hypothesis", "observe", "predict", "measure", "test", "data",
    "result", "science", "scientist", "discover", "investigate", "analyze",
    "research", "study", "evidence", "theory", "fact", "prove", "conclusion",
    "question", "answer", "why", "how", "what", "when", "where", "because",
    "reason", "cause", "effect", "change", "grow", "plant", "animal", "nature",
    "weather", "water", "air", "earth", "space", "star", "planet", "moon", "sun",
    "light", "dark", "hot", "cold", "big", "small", "heavy", "light", "fast",
    "slow", "up", "down", "inside", "outside", "color", "shape", "size", "number",
    "count", "more", "less", "same", "different"
  >>

KW_social ==
  <<
    "friend", "share", "help", "together", "feelings", "happy", "sad", "angry",
    "excited", "scared", "worried", "proud", "sorry", "thank", "please", "welcome",
    "hello", "goodbye", "play", "game", "fun", "laugh", "smile", "cry", "hug",
    "love", "care", "kind", "nice", "mean", "fair", "unfair", "right", "wrong",
    "good", "bad", "yes", "no", "maybe", "okay", "sure", "family", "mom", "dad",
    "parent", "brother", "sister", "baby", "child", "people", "person", "group",
    "team", "class", "school", "teacher", "student", "learn", "teach", "listen",
    "talk", "say", "tell", "ask", "answer", "understand", "know", "think",
    "remember", "forget", "want", "need", "like", "dislike"
  >>

KW_literature ==
  <<
    "story", "character", "beginning", "ending", "imagine", "pretend",
    "make-believe", "fairy tale", "tale", "book", "read", "page", "chapter",
    "title", "author", "writer", "write", "draw", "picture", "illustration",
    "drawing", "art", "create", "make", "once upon a time", "once", "long ago",
    "happily ever after", "the end", "begin", "start", "finish", "end", "first",
    "last", "next", "then", "after", "before", "prince", "princess", "king",
    "queen", "castle", "dragon", "magic", "wizard", "witch", "fairy", "giant",
    "dwarf", "hero", "villain", "adventure", "journey", "travel", "visit", "go",
    "come", "arrive", "leave", "return", "home", "place", "where", "there", "here",
    "far", "near", "find", "lose", "search", "look", "see", "watch", "show", "hide",
    "appear", "disappear", "magic", "wish", "dream", "hope"
  >>

KW_language ==
  <<
    "word", "sentence", "speak", "listen", "communicate", "talk", "say", "tell",
    "speech", "language", "voice", "sound", "noise", "quiet", "loud", "soft",
    "whisper", "shout", "yell", "call", "name", "label", "describe", "explain",
    "mean", "meaning", "understand", "comprehend", "know", "learn", "teach",
    "question", "ask", "answer", "reply", "respond", "conversation", "discuss",
    "chat", "talk", "speak", "say", "tell", "speech", "pronounce", "pronunciation",
    "letter", "alphabet", "read", "write", "spell", "spelling", "grammar", "noun",
    "verb", "adjective", "sentence", "phrase", "paragraph", "story", "book",
    "dictionary", "vocabulary", "word", "term", "expression", "idiom", "phrase"
  >>
KEYWORDS ==
  [science |-> KW_science, social |-> KW_social,
   literature |-> KW_literature, language |-> KW_language]

\* Object.keys(KEYWORDS), in insertion order
Categories == <<"science", "social", "literature", "language">>

IsRegexSpecial(c) ==
  c \in {".", "*", "+", "?", "^", "$", "{", "}", "(", ")", "|", "[", "]", "\\"}

\* keyword.replace(/[.*+?^${}()|[\]\\]/g, '\\$&')
RECURSIVE escapeRegExp(_)
escapeRegExp(s) ==
  IF Len(s) = 0 THEN ""
  ELSE IF Len(s) = 1 THEN (IF IsRegexSpecial(s) THEN "\\" \o s ELSE s)
  ELSE LET h == Len(s) \div 2
       IN escapeRegExp(SubSeq(s, 1, h)) \o escapeRegExp(SubSeq(s, h + 1, Len(s)))

\* variant of WordBoundary: a pattern without \b, every offset will do
AnyOffset(s, p) == TRUE

\* \b at offset p of s (between s[p] and s[p+1], offsets from 0)
WordBoundary(s, p) ==
  (p > 0 /\ IsWordChar(CharAt(s, p))) # (p < Len(s) /\ IsWordChar(CharAt(s, p + 1)))

\* the offsets of s at which \b holds
Boundaries(s) == {p \in 0..Len(s) : WordBoundary(s, p)}

\* the offset after the whitespace run of s starting at offset p
RECURSIVE SkipWhiteSpace(_, _)
SkipWhiteSpace(s, p) ==
  IF p < Len(s) /\ IsWhiteSpace(CharAt(s, p + 1)) THEN SkipWhiteSpace(s, p + 1) ELSE p

\* The pattern new RegExp(`\\b${src}\\b`, 'gi') built for a keyword; src is the
\* keyword as it is (analyzeTranscript) or escaped (extractKeywordSegments).
\* Every taxonomy keyword starts with a letter, the first literal of its pattern.
RegExp(keyword, escaped) ==
  [keyword |-> keyword, escaped |-> escaped, first |-> Canonicalize(CharAt(keyword, 1))]

PatternSource(re) == IF re.escaped THEN escapeRegExp(re.keyword) ELSE re.keyword

\* Canonicalize applied to every character of the subject string
RECURSIVE CanonicalizeAll(_)
CanonicalizeAll(s) ==
  IF Len(s) = 0 THEN ""
  ELSE IF Len(s) = 1 THEN Canonicalize(s)
  ELSE LET h == Len(s) \div 2
       IN CanonicalizeAll(SubSeq(s, 1, h)) \o CanonicalizeAll(SubSeq(s, h + 1, Len(s)))

\* The pattern source src from its offset k on, matched at offset p of the
\* subject, cs being the subject canonicalized: the end offset, or -1.
\* \c is the literal c; in a phrase pattern a whitespace run of the source
\* stands for \s+ (greedy; what follows it is never whitespace); every other
\* character of a keyword is a literal, compared under the i flag.
RECURSIVE MatchFrom(_, _, _, _, _)
MatchFrom(src, phrase, k, cs, p) ==
  IF k >= Len(src) THEN p
  ELSE IF phrase /\ IsWhiteSpace(CharAt(src, k + 1))
       THEN LET e == SkipWhiteSpace(cs, p)
            IN IF e = p THEN -1
               ELSE MatchFrom(src, phrase, SkipWhiteSpace(src, k), cs, e)
  ELSE LET esc == CharAt(src, k + 1) = "\\" /\ k + 1 < Len(src)
           lit == IF esc THEN CharAt(src, k + 2) ELSE CharAt(src, k + 1)
       IN IF p < Len(cs) /\ CharAt(cs, p + 1) = Canonicalize(lit)
          THEN MatchFrom(src, phrase, IF esc THEN k + 2 ELSE k + 1, cs, p + 1)
          ELSE -1

\* variant of MatchAt: no \b after the keyword, so a keyword also matches as
\* the beginning of a longer word
MatchAtWordStart(re, cs, bs, p) ==
  IF p \notin bs \/ p >= Len(cs) \/ CharAt(cs, p + 1) # re.first THEN -1
  ELSE MatchFrom(PatternSource(re), IncludesSpace(re.keyword), 0, cs, p)

\* the pattern re matched at offset p of the subject, whose \b offsets are bs:
\* the end offset, or -1
MatchAt(re, cs, bs, p) ==
  IF p \notin bs \/ p >= Len(cs) \/ CharAt(cs, p + 1) # re.first THEN -1
  ELSE LET e == MatchFrom(PatternSource(re), IncludesSpace(re.keyword), 0, cs, p)
       IN IF e >= 0 /\ e \in bs THEN e ELSE -1

\* RegExp.prototype.exec in a loop with the g flag (also String.prototype.match):
\* the matches from lastIndex on, left to right, never overlapping
RECURSIVE ExecAll(_, _, _, _)
ExecAll(re, cs, bs, lastIndex) ==
  LET starts == {p \in bs : p >= lastIndex /\ MatchAt(re, cs, bs, p) >= 0}
  IN IF starts = {} THEN <<>>
     ELSE LET p == CHOOSE q \in starts : \A r \in starts : q <= r
              e == MatchAt(re, cs, bs, p)
          IN <<[index |-> p, end |-> e]>>
               \o ExecAll(re, cs, bs, IF e = p THEN e + 1 ELSE e)

ZeroCounts == [science |-> 0, social |-> 0, literature |-> 0, language |-> 0]

\* the guard of analyzeTranscript and extractKeywordSegments
IsBlankInput(transcript) ==
  ~Truthy(transcript) \/ ~IsString(transcript) \/ Len(trim(transcript.str)) = 0

\* variant of CountRange: a keyword listed twice in a category counts once
RECURSIVE CountRangeDistinct(_, _, _, _, _)
CountRangeDistinct(list, lo, hi, cs, bs) ==
  IF lo > hi THEN 0
  ELSE CountRangeDistinct(list, lo, hi - 1, cs, bs)
         + (IF \E k \in lo..(hi - 1) : list[k] = list[hi] THEN 0
            ELSE Len(ExecAll(RegExp(list[hi], FALSE), cs, bs, 0)))

\* KEYWORDS[category].forEach of analyzeTranscript, keywords lo..hi
RECURSIVE CountRange(_, _, _, _, _)
CountRange(list, lo, hi, cs, bs) ==
  IF lo > hi THEN 0
  ELSE IF lo = hi THEN Len(ExecAll(RegExp(list[lo], FALSE), cs, bs, 0))
  ELSE LET mid == (lo + hi) \div 2
       IN CountRange(list, lo, mid, cs, bs) + CountRange(list, mid + 1, hi, cs, bs)

analyzeTranscript(transcript) ==
  IF IsBlankInput(transcript) THEN ZeroCounts
  ELSE LET lowerTranscript == toLowerCase(transcript.str)
           cs == CanonicalizeAll(lowerTranscript)
           bs == Boundaries(lowerTranscript)
       IN [c \in DOMAIN KEYWORDS |-> CountRange(KEYWORDS[c], 1, Len(KEYWORDS[c]), cs, bs)]

maxPerCategory == 20

Min(a, b) == IF a <= b THEN a ELSE b

\* Math.round(n / d) for n >= 0, d > 0: halves round up
RoundDiv(n, d) == (2 * n + d) \div (2 * d)

\* variant of ScoreOf: no cap at 100
ScoreOfUncapped(count) == RoundDiv(count * 100, maxPerCategory)

\* Math.min(100, Math.round((count / maxPerCategory) * 100))
ScoreOf(count) == Min(100, RoundDiv(count * 100, maxPerCategory))

calculateScores(counts) ==
  [scienceTalk |-> ScoreOf(counts.science),
   socialTalk |-> ScoreOf(counts.social),
   literatureTalk |-> ScoreOf(counts.literature),
   languageDevelopment |-> ScoreOf(counts.language)]

\* variant of SegmentsOf: the text is taken from the lower-cased transcript
SegmentsOfLowerCased(keyword, category, s, cs, bs) ==
  LET ms == ExecAll(RegExp(keyword, TRUE), cs, bs, 0)
  IN [j \in 1..Len(ms) |->
        [text |-> toLowerCase(SubSeq(s, ms[j].index + 1, ms[j].end)), category |-> category,
         startIndex |-> ms[j].index, endIndex |-> ms[j].end]]

\* the while loop of extractKeywordSegments for one keyword
SegmentsOf(keyword, category, s, cs, bs) ==
  LET ms == ExecAll(RegExp(keyword, TRUE), cs, bs, 0)
  IN [j \in 1..Len(ms) |->
        [text |-> SubSeq(s, ms[j].index + 1, ms[j].end), category |-> category,
         startIndex |-> ms[j].index, endIndex |-> ms[j].end]]

RECURSIVE SegmentsRange(_, _, _, _, _, _, _)
SegmentsRange(list, lo, hi, category, s, cs, bs) ==
  IF lo > hi THEN <<>>
  ELSE IF lo = hi THEN SegmentsOf(list[lo], category, s, cs, bs)
  ELSE LET mid == (lo + hi) \div 2
       IN SegmentsRange(list, lo, mid, category, s, cs, bs)
            \o SegmentsRange(list, mid + 1, hi, category, s, cs, bs)

extractKeywordSegments(transcript) ==
  IF IsBlankInput(transcript) THEN <<>>
  ELSE LET s == transcript.str
           cs == CanonicalizeAll(s)
           bs == Boundaries(s)
           of(k) == SegmentsRange(KEYWORDS[Categories[k]], 1, Len(KEYWORDS[Categories[k]]),
                                  Categories[k], s, cs, bs)
       IN of(1) \o of(2) \o of(3) \o of(4)


(***************************************************************************)
(* The controllers.  Every request r has a control point pc[r], the        *)
(* handler's local variables loc[r], the response res[r] once it is sent,  *)
(* the uploaded file's presence on disk disk[r], the state of the semantic *)
(* step semantic[r] and the history log[r] of the calls it made.           *)
(***************************************************************************)
VARIABLES
  RAG_ENABLED,  \* process.env.RAG_ENABLED
  req,          \* the incoming requests: controller, req.user, req.body, req.file
  pc,           \* the await each handler is suspended at
  loc,          \* the handler's locals
  res,          \* the response sent, if any
  disk,         \* fs.existsSync(req.file.path)
  semantic,     \* the semantic step: its state ("none", "skipped", "running",
                \* "succeeded", "failed") and how classifyWithSegments settled
  log,          \* the calls made on behalf of the request, in order
  scoreCall,    \* a call of calculateScores: its argument and result
  lexCall       \* a call of the lexical stage: transcript, counts, segments

vars == <<RAG_ENABLED, req, pc, loc, res, disk, semantic, log, scoreCall, lexCall>>

\* the words and fragments transcripts are made of, NumPieces of them in use
PieceList ==
  <<"once upon a time", "Talk ", "s", " ", "the \t\nend", "make-believe", "_",
    "the cat sat", "Answer.", "STORY\n">>

NumPieces == 8

Pieces == {PieceList[i] : i \in 1..Min(NumPieces, Len(PieceList))}

\* transcripts of at most two pieces
ShortTexts == {a \o b : a \in Pieces \cup {""}, b \in Pieces \cup {""}}

\* whole transcripts of the end-to-end scenarios
ScenarioTexts == {"The scientist observed the experiment and made a prediction."}

\* what revai.getTranscript may hand back: a text, or no text at all
TranscriptValues ==
  {JsString(s) : s \in ShortTexts \cup ScenarioTexts}
    \cup {JsNull, JsUndefined, JsNumber(0), JsNumber(42)}

\* the transcripts handed back while several requests are in flight
ConcurrentTranscripts ==
  {JsString("Talk once upon a time"), JsString("the cat sat"), JsString("")}

\* settings of the RAG_ENABLED environment variable
EnvValues == {JsUndefined, JsString("true"), JsString(" TRUE "), JsString("false")}

Users ==
  {[role |-> "teacher", id |-> "t2"], [role |-> "admin", id |-> "a1"],
   [role |-> "parent", id |-> "p1"]}

\* req.file: "none" (no upload), "uploaded" (stored on disk) or "lost"
\* (req.file is set but nothing is at req.file.path)
FileStates == {"none", "uploaded", "lost"}

\* requests of POST classroom audio; "" is a body field left out
ClassroomRequests ==
  {q \in [controller : {"classroom"}, user : Users,
          body : [teacherId : {"", "t1", "t9"}, center : {"", "c1", "c2"}, childId : {""}],
          file : FileStates] :
     /\ q.user.role = "teacher" => q.body.center = ""
     /\ q.user.role = "parent" => q.body.teacherId = "" /\ q.body.center = ""}

\* requests of POST child audio
RevaiRequests ==
  [controller : {"revai"}, user : {[role |-> "parent", id |-> "p1"]},
   body : [teacherId : {""}, center : {""}, childId : {"", "k1"}],
   file : FileStates]

RequestValues == ClassroomRequests \cup RevaiRequests

\* the requests in flight together: uploads of an admin for teacher t1 and of
\* a parent for child k1
ConcurrentRequests ==
  {q \in RequestValues :
     /\ q.file = "uploaded"
     /\ q.body.center = ""
     /\ \/ q.user.role = "admin" /\ q.body.teacherId = "t1"
        \/ q.controller = "revai" /\ q.body.childId = "k1"}

\* the settings of RAG_ENABLED while several requests are in flight
ConcurrentEnvValues == {JsString("true"), JsString("false")}

\* the teachers collection: the center of every stored teacher
TeacherCenter == [t1 |-> "c1", t2 |-> "c2"]

\* Teacher.findById
findById(id) ==
  IF id \in DOMAIN TeacherCenter
  THEN Some([id |-> id, center |-> TeacherCenter[id]])
  ELSE Null

\* messages of the errors revai.transcribeFromFile rejects with
TranscriptionErrors ==
  {"RevAI service unreachable", "connect ECONNREFUSED", "Request timeout",
   "Transcription timed out", "Job not found", "RevAI API error: 500",
   "API key is required", "socket hang up"}

\* message of the error Teacher.findById rejects with
DatabaseError == "Operation buffering timed out"

\* the handler's local variables before any assignment
NoLocals ==
  [teacherId |-> "", filePath |-> Null, transcript |-> JsUndefined,
   keywordCounts |-> Null, keywordScores |-> Null, ragScores |-> Null,
   ragSegments |-> Null, finalScores |-> Null]

\* at most MaxRequests requests are in flight together
MaxRequests == 2

RequestIds == 1..MaxRequests

InitRequests(n) ==
  /\ RAG_ENABLED \in EnvValues
  /\ req \in [1..n -> RequestValues]
  /\ pc = [r \in 1..n |-> "start"]
  /\ loc = [r \in 1..n |-> NoLocals]
  /\ res = [r \in 1..n |-> Null]
  /\ disk = [r \in 1..n |-> req[r].file = "uploaded"]
  /\ semantic = [r \in 1..n |-> [state |-> "none", outcome |-> Null]]
  /\ log = [r \in 1..n |-> <<>>]
  /\ scoreCall = Null
  /\ lexCall = Null

\* one request in flight
Init == InitRequests(1)

(***************************************************************************)
(* A handler's run between two awaits is a function from the request's     *)
(* state s (control point, locals, response, file, log) to its next state. *)
(* s.thrown holds the message of an exception on its way to the catch.     *)
(***************************************************************************)
Cur(r) ==
  [pc |-> pc[r], loc |-> loc[r], res |-> res[r], disk |-> disk[r],
   semantic |-> semantic[r], log |-> log[r], thrown |-> Null]

\* variant of Step: the handler's locals are variables of the module, shared
\* by all the requests in flight
StepOnSharedLocals(r, next) ==
  \E s \in {next} :
    /\ pc' = [pc EXCEPT ![r] = s.pc]
    /\ loc' = [q \in DOMAIN loc |-> s.loc]
    /\ res' = [res EXCEPT ![r] = s.res]
    /\ disk' = [disk EXCEPT ![r] = s.disk]
    /\ semantic' = [semantic EXCEPT ![r] = s.semantic]
    /\ log' = [log EXCEPT ![r] = s.log]
    /\ UNCHANGED <<RAG_ENABLED, req, scoreCall, lexCall>>

\* the handler of request r runs up to its next await or to its end: only its
\* own locals, response, file and log change
Step(r, next) ==
  \E s \in {next} :
    /\ pc' = [pc EXCEPT ![r] = s.pc]
    /\ loc' = [loc EXCEPT ![r] = s.loc]
    /\ res' = [res EXCEPT ![r] = s.res]
    /\ disk' = [disk EXCEPT ![r] = s.disk]
    /\ semantic' = [semantic EXCEPT ![r] = s.semantic]
    /\ log' = [log EXCEPT ![r] = s.log]
    /\ UNCHANGED <<RAG_ENABLED, req, scoreCall, lexCall>>

Call(s, f) == [s EXCEPT !.log = Append(@, f)]

Await(s, f) == [s EXCEPT !.pc = f, !.log = Append(@, f)]

Throw(s, message) == [s EXCEPT !.thrown = Some(message)]

\* res.status(status).json({ message, ...result })
Respond(s, status, message, result) ==
  [s EXCEPT !.pc = "done",
            !.res = Some([status |-> status, message |-> message, result |-> result]),
            !.log = Append(@, "res.json")]

\* if (fs.existsSync(filePath)) { try { fs.unlinkSync(filePath) } catch {} };
\* unlinkOk is whether unlinkSync succeeds
Unlink(s, unlinkOk) ==
  IF s.disk THEN [s EXCEPT !.disk = ~unlinkOk, !.log = Append(@, "fs.unlinkSync")] ELSE s

ClassroomErrorResponse(message) ==
  IF Includes(message, "unreachable") \/ Includes(message, "ECONNREFUSED")
  THEN [status |-> 503,
        message |-> "RevAI service is not reachable. Please check your internet connection and API key."]
  ELSE IF Includes(message, "timeout")
  THEN [status |-> 504, message |-> "Audio transcription timed out."]
  ELSE [status |-> 500, message |-> IF message # "" THEN message ELSE "Failed to process audio"]

RevaiErrorResponse(message) ==
  IF Includes(message, "unreachable") \/ Includes(message, "ECONNREFUSED")
  THEN [status |-> 503,
        message |-> "RevAI service is not reachable. Please check your internet connection and API key."]
  ELSE IF Includes(message, "timeout") \/ Includes(message, "timed out")
  THEN [status |-> 504,
        message |-> "Audio transcription timed out. The audio file may be too long or the service is overloaded."]
  ELSE IF Includes(message, "not found")
  THEN [status |-> 404, message |-> "Audio file not found on server."]
  ELSE IF Includes(message, "API error") \/ Includes(message, "RevAI")
  THEN [status |-> 502, message |-> "RevAI API error: " \o message]
  ELSE IF Includes(message, "API key")
  THEN [status |-> 401,
        message |-> "RevAI API key is required. Please set REVAI_API_KEY environment variable."]
  ELSE [status |-> 500,
        message |-> IF message # "" THEN message
                    ELSE "Failed to process audio. Check server logs for details."]

\* the catch block of either handler: map the error, delete the upload if
\* filePath was assigned, answer
Catch(controller, s, unlinkOk) ==
  LET e == IF controller = "classroom" THEN ClassroomErrorResponse(s.thrown[1])
           ELSE RevaiErrorResponse(s.thrown[1])
      caught == [s EXCEPT !.thrown = Null]
  IN Respond(IF s.loc.filePath # Null THEN Unlink(caught, unlinkOk) ELSE caught,
             e.status, e.message, Null)

\* the handler ran to a response, to an await, or into its catch block
Settle(controller, s, unlinkOk) ==
  IF s.thrown # Null THEN Catch(controller, s, unlinkOk) ELSE s

\* the upload checks both handlers make before transcription
AcceptFile(r, s) ==
  IF req[r].file = "none"
  THEN Respond(s, 400, "Audio file is required. Please select an audio file to upload.", Null)
  ELSE LET t == [s EXCEPT !.loc.filePath = Some("uploads/audio")]
       IN IF ~t.disk THEN Respond(t, 500, "Uploaded file not found on server", Null)
          ELSE IF req[r].controller = "classroom" THEN Await(t, "revai.transcribeFromFile")
          ELSE Await(t, "revai.isHealthy")

\* classroomWhisperController up to its first await or response
ClassroomStart(r) ==
  /\ r \in DOMAIN pc
  /\ req[r].controller = "classroom"
  /\ pc[r] = "start"
  /\ LET user == req[r].user
         bodyTeacherId == req[r].body.teacherId
         s == Cur(r)
     IN Step(r,
          IF user.role = "teacher"
          THEN AcceptFile(r, [s EXCEPT !.loc.teacherId = user.id])
          ELSE IF user.role = "admin"
          THEN IF bodyTeacherId = ""
               THEN Respond(s, 400, "Teacher ID is required for admin uploads", Null)
               ELSE Await([s EXCEPT !.loc.teacherId = bodyTeacherId], "Teacher.findById")
          ELSE Respond(s, 403, "Only teachers and admins can upload classroom recordings", Null))

\* variant of ClassroomTeacherFound: the teacher's center is not compared
\* with the center of the request
ClassroomTeacherFoundInAnyCenter(r) ==
  /\ r \in DOMAIN pc
  /\ pc[r] = "Teacher.findById"
  /\ LET teacher == findById(loc[r].teacherId)
         s == Cur(r)
     IN Step(r,
          IF teacher = Null THEN Respond(s, 404, "Teacher not found", Null)
          ELSE AcceptFile(r, s))

\* await Teacher.findById(teacherId) resolves
ClassroomTeacherFound(r) ==
  /\ r \in DOMAIN pc
  /\ pc[r] = "Teacher.findById"
  /\ LET teacher == findById(loc[r].teacherId)
         center == req[r].body.center
         s == Cur(r)
     IN Step(r,
          IF teacher = Null THEN Respond(s, 404, "Teacher not found", Null)
          ELSE IF center # "" /\ teacher[1].center # center
          THEN Respond(s, 400, "Selected teacher does not belong to the chosen center", Null)
          ELSE AcceptFile(r, s))

\* await Teacher.findById(teacherId) rejects; filePath is still null
ClassroomTeacherLookupFails(r) ==
  /\ r \in DOMAIN pc
  /\ pc[r] = "Teacher.findById"
  /\ Step(r, Catch("classroom", Throw(Cur(r), DatabaseError), TRUE))

\* revaiController up to its first await or response
RevaiStart(r) ==
  /\ r \in DOMAIN pc
  /\ req[r].controller = "revai"
  /\ pc[r] = "start"
  /\ Step(r, IF req[r].body.childId = ""
             THEN Respond(Cur(r), 400, "Child ID is required", Null)
             ELSE AcceptFile(r, Cur(r)))

\* await revai.isHealthy(): healthy, unhealthy or rejecting, the handler goes on
RevaiHealthChecked(r) ==
  /\ r \in DOMAIN pc
  /\ pc[r] = "revai.isHealthy"
  /\ Step(r, Await(Cur(r), "revai.transcribeFromFile"))

\* await revai.transcribeFromFile(...) rejects
TranscriptionFails(r) ==
  /\ r \in DOMAIN pc
  /\ pc[r] = "revai.transcribeFromFile"
  /\ \E message \in TranscriptionErrors, unlinkOk \in BOOLEAN :
       Step(r, Catch(req[r].controller, Throw(Cur(r), message), unlinkOk))

(***************************************************************************)
(* The classification pipeline both handlers run on the transcript.        *)
(***************************************************************************)

\* variant of ragEnabled: any non-empty setting enables the semantic step
ragEnabledWhenSet(env) == Truthy(env)

\* process.env.RAG_ENABLED?.toString().toLowerCase().trim() === 'true'
ragEnabled(env) == IsString(env) /\ trim(toLowerCase(env.str)) = "true"

\* const transcript = revai.getTranscript(transcriptionResult)
GetTranscript(s, transcript) ==
  [s EXCEPT !.loc.transcript = transcript, !.log = Append(@, "revai.getTranscript")]

\* revaiController: `${transcript.length}` and transcript.substring(0, 100)
LogTranscript(s) ==
  LET transcript == s.loc.transcript
  IN IF transcript.type \in {"null", "undefined"}
     THEN Throw(s, "Cannot read properties of " \o transcript.type \o " (reading 'length')")
     ELSE IF ~IsString(transcript) THEN Throw(s, "transcript.substring is not a function")
     ELSE s

\* analyzeTranscript(transcript || ""), calculateScores(keywordCounts) and the
\* initial values of ragScores, ragSegments and finalScores
LexicalStage(s) ==
  IF s.thrown # Null THEN s
  ELSE LET keywordCounts == analyzeTranscript(OrEmptyString(s.loc.transcript))
           keywordScores == calculateScores(keywordCounts)
       IN [s EXCEPT !.loc.keywordCounts = Some(keywordCounts),
                    !.loc.keywordScores = Some(keywordScores),
                    !.loc.ragScores = Null,
                    !.loc.ragSegments = Null,
                    !.loc.finalScores = Some(keywordScores),
                    !.log = @ \o <<"analyzeTranscript", "calculateScores">>]

\* variant of SemanticGuard: the transcript is not looked at
SemanticGuardOnFlagOnly(s, env) ==
  IF s.thrown # Null THEN s
  ELSE IF ragEnabled(env)
  THEN Await([s EXCEPT !.semantic.state = "running"], "ragClassifier.classifyWithSegments")
  ELSE [s EXCEPT !.semantic.state = "skipped"]

\* if (ragEnabled && transcript && transcript.trim().length > 0): the await of
\* ragClassifier.classifyWithSegments, or the step is skipped
SemanticGuard(s, env) ==
  LET transcript == s.loc.transcript
  IN IF s.thrown # Null THEN s
     ELSE IF ~ragEnabled(env) \/ ~Truthy(transcript)
     THEN [s EXCEPT !.semantic.state = "skipped"]
     ELSE IF ~IsString(transcript) THEN Throw(s, "transcript.trim is not a function")
     ELSE IF Len(trim(transcript.str)) > 0
     THEN Await([s EXCEPT !.semantic.state = "running"], "ragClassifier.classifyWithSegments")
     ELSE [s EXCEPT !.semantic.state = "skipped"]

\* variant of SelectSegments: an empty list is kept, only null is replaced
SelectSegmentsWhenNull(s) ==
  IF s.thrown # Null THEN s
  ELSE IF s.loc.ragSegments = Null
  THEN [s EXCEPT !.loc.ragSegments = Some(extractKeywordSegments(OrEmptyString(s.loc.transcript))),
                 !.log = Append(@, "extractKeywordSegments")]
  ELSE s

\* if (!ragSegments || ragSegments.length === 0)
\*   ragSegments = extractKeywordSegments(transcript || "")
SelectSegments(s) ==
  IF s.thrown # Null THEN s
  ELSE IF s.loc.ragSegments = Null \/ Len(s.loc.ragSegments[1]) = 0
  THEN [s EXCEPT !.loc.ragSegments = Some(extractKeywordSegments(OrEmptyString(s.loc.transcript))),
                 !.log = Append(@, "extractKeywordSegments")]
  ELSE s

\* assessmentData, of which the owner (teacherId or childId), the
\* classification fields and the scores are kept
Assessment(r, s) ==
  [owner |-> IF req[r].controller = "classroom" THEN s.loc.teacherId ELSE req[r].body.childId,
   transcript |-> OrEmptyString(s.loc.transcript),
   scores |-> s.loc.finalScores[1],
   keywordCounts |-> s.loc.keywordCounts[1],
   ragScores |-> s.loc.ragScores,
   ragSegments |-> IF s.loc.ragScores # Null \/ Len(s.loc.ragSegments[1]) > 0
                   THEN s.loc.ragSegments ELSE Null,
   classificationMethod |-> IF s.loc.ragScores # Null THEN "hybrid" ELSE "keyword-only"]

\* the end of the try block: assessmentData, the upload's deletion and the
\* 200 response
Complete(r, s, unlinkOk) ==
  IF s.thrown # Null THEN s
  ELSE LET assessment == Assessment(r, s)
           result == [assessment |-> assessment,
                      transcript |-> s.loc.transcript,
                      keywordCounts |-> s.loc.keywordCounts[1],
                      scores |-> s.loc.finalScores[1],
                      ragScores |-> s.loc.ragScores,
                      ragSegments |-> s.loc.ragSegments[1],
                      classificationMethod |-> assessment.classificationMethod]
       IN Respond(Unlink(s, unlinkOk), 200,
                  "Audio processed successfully - please review transcript",
                  Some(IF req[r].controller = "revai"
                       THEN result @@ [keywordScores |-> s.loc.keywordScores[1]]
                       ELSE result))

\* the handler is suspended at await ragClassifier.classifyWithSegments
Suspended(s) == s.thrown = Null /\ s.pc = "ragClassifier.classifyWithSegments"

\* the transcripts revai.getTranscript may hand back to the requests in flight
TranscriptsInFlight ==
  IF Cardinality(DOMAIN pc) > 1 THEN ConcurrentTranscripts ELSE TranscriptValues

\* await revai.transcribeFromFile(...) resolves and revai.getTranscript returns
\* transcript: the lexical stage, then the semantic step's await or the rest of
\* the handler
TranscriptionDone(r) ==
  /\ r \in DOMAIN pc
  /\ pc[r] = "revai.transcribeFromFile"
  /\ \E transcript \in TranscriptsInFlight :
       LET controller == req[r].controller
           got == GetTranscript(Cur(r), transcript)
           logged == IF controller = "revai" THEN LogTranscript(got) ELSE got
           guarded == SemanticGuard(LexicalStage(logged), RAG_ENABLED)
       IN \E resolved \in {IF Suspended(guarded) THEN guarded ELSE SelectSegments(guarded)} :
            \E unlinkOk \in BOOLEAN :
              Step(r, IF Suspended(resolved) THEN resolved
                      ELSE Settle(controller, Complete(r, resolved, unlinkOk), unlinkOk))

(***************************************************************************)
(* The semantic step.  lib/ragClassifier.js and lib/hybridScorer.js are    *)
(* specified components: the classifier fails as a unit or returns scores  *)
(* for every category with a list of segments (possibly none); the scorer  *)
(* weighs, rounds and clamps per category.                                 *)
(***************************************************************************)
semanticWeight == 60

lexicalWeight == 100 - semanticWeight

Max(a, b) == IF a >= b THEN a ELSE b

\* round(clamp(w_semantic * semantic + w_lexical * lexical, 0, 100))
Fuse(sem, lex) == Max(0, Min(100, RoundDiv(semanticWeight * sem + lexicalWeight * lex, 100)))

combineScores(ragScores, keywordScores) ==
  [scienceTalk |-> Fuse(ragScores.scienceTalk, keywordScores.scienceTalk),
   socialTalk |-> Fuse(ragScores.socialTalk, keywordScores.socialTalk),
   literatureTalk |-> Fuse(ragScores.literatureTalk, keywordScores.literatureTalk),
   languageDevelopment |-> Fuse(ragScores.languageDevelopment, keywordScores.languageDevelopment)]

\* a segment list the classifier may report for a transcript
SemanticSegments(transcript) ==
  <<[text |-> transcript.str, category |-> "literature",
     startIndex |-> 0, endIndex |-> Len(transcript.str)]>>

NoSemanticScores ==
  [scienceTalk |-> 0, socialTalk |-> 0, literatureTalk |-> 0, languageDevelopment |-> 0]

SomeSemanticScores ==
  [scienceTalk |-> 37, socialTalk |-> 8, literatureTalk |-> 100, languageDevelopment |-> 55]

\* how the semantic step can go: classifyWithSegments rejects, or resolves
\* with scores and segments (an absent, empty or non-empty list) and
\* combineScores then returns or throws
RagOutcomes(transcript) ==
  {[kind |-> "rejects", scores |-> Null, segments |-> Null, combine |-> "none"],
   [kind |-> "resolves", scores |-> Some(NoSemanticScores), segments |-> Null,
    combine |-> "returns"],
   [kind |-> "resolves", scores |-> Some(SomeSemanticScores), segments |-> Some(<<>>),
    combine |-> "returns"],
   [kind |-> "resolves", scores |-> Some(SomeSemanticScores),
    segments |-> Some(SemanticSegments(transcript)), combine |-> "returns"],
   [kind |-> "resolves", scores |-> Some(SomeSemanticScores),
    segments |-> Some(SemanticSegments(transcript)), combine |-> "throws"]}

\* variant of SemanticFailed: the catch leaves ragScores as they are
SemanticFailedKeepingScores(controller, s) ==
  [s EXCEPT !.loc.ragSegments = Null,
            !.loc.finalScores = IF controller = "revai" THEN s.loc.keywordScores ELSE @,
            !.semantic.state = "failed"]

\* the catch of the semantic step; only revaiController resets finalScores
SemanticFailed(controller, s) ==
  [s EXCEPT !.loc.ragScores = Null,
            !.loc.ragSegments = Null,
            !.loc.finalScores = IF controller = "revai" THEN s.loc.keywordScores ELSE @,
            !.semantic.state = "failed"]

\* variant of SemanticStep: finalScores is not assigned the combined scores
SemanticStepWithoutFusion(controller, s, outcome) ==
  LET settled == [s EXCEPT !.semantic.outcome = Some(outcome)]
  IN IF outcome.kind = "rejects" \/ outcome.combine = "throws"
     THEN [settled EXCEPT !.semantic.state = "failed"]
     ELSE Call([settled EXCEPT
                  !.loc.ragScores = outcome.scores,
                  !.loc.ragSegments = IF outcome.segments = Null THEN Some(<<>>)
                                      ELSE outcome.segments,
                  !.semantic.state = "succeeded"],
               "hybridScorer.combineScores")

\* the try block around classifyWithSegments and combineScores, from the
\* await's outcome on
SemanticStep(controller, s, outcome) ==
  LET settled == [s EXCEPT !.semantic.outcome = Some(outcome)]
  IN IF outcome.kind = "rejects" THEN SemanticFailed(controller, settled)
     ELSE LET t == Call([settled EXCEPT
                           !.loc.ragScores = outcome.scores,
                           !.loc.ragSegments = IF outcome.segments = Null THEN Some(<<>>)
                                               ELSE outcome.segments],
                        "hybridScorer.combineScores")
          IN IF outcome.combine = "throws" THEN SemanticFailed(controller, t)
             ELSE [t EXCEPT !.loc.finalScores =
                              Some(combineScores(outcome.scores[1], s.loc.keywordScores[1])),
                            !.semantic.state = "succeeded"]

\* await ragClassifier.classifyWithSegments(transcript) settles: the rest of
\* the handler
ClassificationDone(r) ==
  /\ r \in DOMAIN pc
  /\ pc[r] = "ragClassifier.classifyWithSegments"
  /\ \E outcome \in RagOutcomes(loc[r].transcript) :
       \E resolved \in {SelectSegments(SemanticStep(req[r].controller, Cur(r), outcome))} :
         \E unlinkOk \in BOOLEAN :
           Step(r, Settle(req[r].controller, Complete(r, resolved, unlinkOk), unlinkOk))

Next ==
  \E r \in RequestIds :
    \/ ClassroomStart(r)
    \/ ClassroomTeacherFound(r)
    \/ ClassroomTeacherLookupFails(r)
    \/ RevaiStart(r)
    \/ RevaiHealthChecked(r)
    \/ TranscriptionFails(r)
    \/ TranscriptionDone(r)
    \/ ClassificationDone(r)

Spec == Init /\ [][Next]_vars

(***************************************************************************)
(* Several requests in flight: Node runs one handler at a time and         *)
(* switches between handlers at their awaits, so the steps of Next         *)
(* interleave freely.                                                      *)
(***************************************************************************)
InitConcurrent ==
  /\ InitRequests(MaxRequests)
  /\ \A r \in DOMAIN req : req[r] \in ConcurrentRequests
  /\ RAG_ENABLED \in ConcurrentEnvValues

SpecConcurrent == InitConcurrent /\ [][Next]_vars

(***************************************************************************)
(* The score normaliser on its own: two calls of calculateScores on count  *)
(* vectors drawn at the start.                                             *)
(***************************************************************************)
MaxCount == 24

\* count vectors in which every category takes every count of 0..MaxCount
CountVectors ==
  {[science |-> n, social |-> MaxCount - n,
    literature |-> (7 * n) % (MaxCount + 1), language |-> n \div 2] : n \in 0..MaxCount}

InitScores ==
  /\ scoreCall \in {[inputs |-> <<a, b>>, results |-> <<>>] : a \in CountVectors, b \in CountVectors}
  /\ RAG_ENABLED = JsUndefined
  /\ req = <<>> /\ pc = <<>> /\ loc = <<>> /\ res = <<>>
  /\ disk = <<>> /\ semantic = <<>> /\ log = <<>>
  /\ lexCall = Null

\* calculateScores is called on the next input
Normalize ==
  /\ scoreCall # Null
  /\ Len(scoreCall.results) < Len(scoreCall.inputs)
  /\ scoreCall' = [scoreCall EXCEPT
                     !.results = Append(@, calculateScores(scoreCall.inputs[Len(@) + 1]))]
  /\ UNCHANGED <<RAG_ENABLED, req, pc, loc, res, disk, semantic, log, lexCall>>

SpecScores == InitScores /\ [][Normalize]_vars

(***************************************************************************)
(* The lexical matcher on its own: analyzeTranscript and                   *)
(* extractKeywordSegments called on a transcript drawn at the start.       *)
(***************************************************************************)
MaxPieces == 2

\* the texts made of at most n pieces
RECURSIVE Texts(_)
Texts(n) ==
  IF n = 0 THEN {""}
  ELSE LET shorter == Texts(n - 1)
       IN shorter \cup {a \o b : a \in shorter, b \in Pieces}

InitLexical ==
  /\ lexCall \in {[transcript |-> t, counts |-> Null, segments |-> Null] :
                    t \in {JsString(s) : s \in Texts(MaxPieces) \cup ScenarioTexts}
                          \cup {JsNull, JsUndefined, JsNumber(0), JsNumber(42)}}
  /\ RAG_ENABLED = JsUndefined
  /\ req = <<>> /\ pc = <<>> /\ loc = <<>> /\ res = <<>>
  /\ disk = <<>> /\ semantic = <<>> /\ log = <<>>
  /\ scoreCall = Null

\* analyzeTranscript(transcript)
Count ==
  /\ lexCall # Null
  /\ lexCall.counts = Null
  /\ lexCall' = [lexCall EXCEPT !.counts = Some(analyzeTranscript(lexCall.transcript))]
  /\ UNCHANGED <<RAG_ENABLED, req, pc, loc, res, disk, semantic, log, scoreCall>>

\* extractKeywordSegments(transcript)
Locate ==
  /\ lexCall # Null
  /\ lexCall.segments = Null
  /\ lexCall' = [lexCall EXCEPT !.segments = Some(extractKeywordSegments(lexCall.transcript))]
  /\ UNCHANGED <<RAG_ENABLED, req, pc, loc, res, disk, semantic, log, scoreCall>>

NextLexical == Count \/ Locate

SpecLexical == InitLexical /\ [][NextLexical]_vars

(***************************************************************************)
(* The lexical matcher on transcripts with a letter outside ASCII.         *)
(***************************************************************************)
UnicodePieces ==
  {"tal" \o KelvinSign, "Talk ", "boo" \o KelvinSign \o " ", "once upon a time",
   KelvinSign \o " ", "K "}

UnicodeTexts == {a \o b : a \in UnicodePieces \cup {""}, b \in UnicodePieces \cup {""}}

InitUnicode ==
  /\ lexCall \in {[transcript |-> JsString(s), counts |-> Null, segments |-> Null] :
                    s \in UnicodeTexts}
  /\ RAG_ENABLED = JsUndefined
  /\ req = <<>> /\ pc = <<>> /\ loc = <<>> /\ res = <<>>
  /\ disk = <<>> /\ semantic = <<>> /\ log = <<>>
  /\ scoreCall = Null

SpecUnicode == InitUnicode /\ [][NextLexical]_vars

(***************************************************************************)
(* Properties of the controllers (specification Spec).                     *)
(***************************************************************************)
Called(r, f) == \E i \in 1..Len(log[r]) : log[r][i] = f

\* every call of g in the log of r comes after a call of f
CalledBefore(r, f, g) ==
  \A j \in 1..Len(log[r]) : log[r][j] = g => \E i \in 1..(j - 1) : log[r][i] = f

\* the request was answered 200 with a result
Returned(r) == res[r] # Null /\ res[r][1].status = 200 /\ res[r][1].result # Null

Result(r) == res[r][1].result[1]

\* the handler got a transcript and has answered
Finished(r) == pc[r] = "done" /\ Called(r, "revai.getTranscript")

\* the semantic step (classifyWithSegments, then combineScores) threw
SemanticThrew(r) ==
  /\ semantic[r].outcome # Null
  /\ semantic[r].outcome[1].kind = "rejects" \/ semantic[r].outcome[1].combine = "throws"

\* the semantic step ran to its end without an error
SemanticCompleted(r) ==
  /\ semantic[r].outcome # Null
  /\ semantic[r].outcome[1].kind = "resolves"
  /\ semantic[r].outcome[1].combine = "returns"

\* the settings of RAG_ENABLED that read 'true' once lower-cased and trimmed
EnabledSettings == {JsString("true"), JsString(" TRUE ")}

\* v is a text with a character that is not whitespace
NonBlankText(v) ==
  IsString(v) /\ \E i \in 1..Len(v.str) : ~IsWhiteSpace(CharAt(v.str, i))

ZeroScores ==
  [scienceTalk |-> 0, socialTalk |-> 0, literatureTalk |-> 0, languageDevelopment |-> 0]

\* C1: in both controllers, when the semantic step (classifyWithSegments
\* followed by combineScores) throws, the request is still answered 200 with
\* classificationMethod 'keyword-only', final scores equal to
\* calculateScores(analyzeTranscript(transcript)) and ragScores null.
C1_SemanticFailureFallsBack ==
  \A r \in DOMAIN pc :
    SemanticThrew(r) =>
      /\ Returned(r)
      /\ Result(r).classificationMethod = "keyword-only"
      /\ Result(r).assessment.classificationMethod = "keyword-only"
      /\ Result(r).scores = calculateScores(analyzeTranscript(Result(r).transcript))
      /\ Result(r).assessment.scores = Result(r).scores
      /\ Result(r).ragScores = Null
      /\ Result(r).assessment.ragScores = Null

\* classroomWhisperController answered after combineScores threw on a
\* transcript with literature keywords
C1_Witness ==
  \E r \in DOMAIN pc :
    /\ req[r].controller = "classroom"
    /\ SemanticThrew(r)
    /\ semantic[r].outcome[1].combine = "throws"
    /\ Returned(r)
    /\ Result(r).scores.literatureTalk > 0

\* C2: the classifier is called only when RAG_ENABLED reads 'true' and the
\* transcript is a text that is not blank; every result returned in any other
\* case was made without calling it, with the semantic step skipped and the
\* lexical scores as final scores; analyzeTranscript and calculateScores are
\* called before any call of the classifier.
C2_SemanticOnlyWhenEnabledAndNonBlank ==
  \A r \in DOMAIN pc :
    LET wanted == RAG_ENABLED \in EnabledSettings /\ NonBlankText(loc[r].transcript)
    IN /\ Called(r, "ragClassifier.classifyWithSegments") => wanted
       /\ CalledBefore(r, "analyzeTranscript", "ragClassifier.classifyWithSegments")
       /\ CalledBefore(r, "calculateScores", "ragClassifier.classifyWithSegments")
       /\ (Returned(r) /\ ~wanted) =>
            /\ ~Called(r, "ragClassifier.classifyWithSegments")
            /\ semantic[r].state = "skipped"
            /\ Result(r).scores = calculateScores(analyzeTranscript(Result(r).transcript))

\* the classifier was called under the setting " TRUE ", after the lexical stage
C2_Witness ==
  \E r \in DOMAIN pc :
    /\ RAG_ENABLED = JsString(" TRUE ")
    /\ Called(r, "ragClassifier.classifyWithSegments")
    /\ Returned(r)

\* C3: a returned result is tagged 'hybrid' exactly when the semantic step ran
\* and completed without error, and its final scores are then the combined
\* scores of the semantic and the lexical scores; otherwise it is tagged
\* 'keyword-only'.
C3_HybridIffSemanticCompleted ==
  \A r \in DOMAIN pc :
    Returned(r) =>
      /\ Result(r).classificationMethod \in {"hybrid", "keyword-only"}
      /\ Result(r).classificationMethod = "hybrid" <=> SemanticCompleted(r)
      /\ Result(r).assessment.classificationMethod = Result(r).classificationMethod
      /\ SemanticCompleted(r) =>
           /\ Called(r, "ragClassifier.classifyWithSegments")
           /\ Result(r).ragScores = semantic[r].outcome[1].scores
           /\ Result(r).scores = combineScores(semantic[r].outcome[1].scores[1],
                                               calculateScores(Result(r).keywordCounts))

\* a hybrid result whose literature score is neither the semantic 100 nor the
\* lexical 10 of "once upon a time"
C3_Witness ==
  \E r \in DOMAIN pc :
    /\ Returned(r)
    /\ Result(r).classificationMethod = "hybrid"
    /\ Result(r).keywordCounts.literature = 2
    /\ Result(r).ragScores[1].literatureTalk = 100
    /\ Result(r).scores.literatureTalk = 64

\* C4: the segments of a returned result are the classifier's segments when
\* the semantic step completed and reported at least one segment, and
\* extractKeywordSegments(transcript) in every other case.
C4_SegmentsSemanticOrLexical ==
  \A r \in DOMAIN pc :
    Returned(r) =>
      LET reported == IF SemanticCompleted(r) /\ semantic[r].outcome[1].segments # Null
                      THEN semantic[r].outcome[1].segments[1] ELSE <<>>
      IN Result(r).ragSegments = IF Len(reported) > 0 THEN reported
                                 ELSE extractKeywordSegments(Result(r).transcript)

\* the semantic step completed with an empty segment list and the result
\* carries keyword segments
C4_Witness ==
  \E r \in DOMAIN pc :
    /\ Returned(r)
    /\ SemanticCompleted(r)
    /\ semantic[r].outcome[1].segments = Some(<<>>)
    /\ Len(Result(r).ragSegments) > 0

\* v is null, undefined, not a string, empty or whitespace only
BlankValue(v) == ~NonBlankText(v)

\* C6 (as claimed): whenever transcription hands over an empty, blank, null,
\* undefined or non-string transcript, the lexical stage runs and the request
\* completes with a result of all-zero counts and scores.
C6_BlankTranscriptCompletes ==
  \A r \in DOMAIN pc :
    (Finished(r) /\ BlankValue(loc[r].transcript)) =>
      /\ Called(r, "analyzeTranscript")
      /\ Called(r, "calculateScores")
      /\ Returned(r)
      /\ Result(r).keywordCounts = ZeroCounts
      /\ Result(r).scores = ZeroScores

\* C7: for the empty-string transcript, whatever RAG_ENABLED is, the result
\* has all counts zero, all scores zero, no segments and classificationMethod
\* 'keyword-only', and the classifier is not called.
C7_EmptyTranscriptEndToEnd ==
  \A r \in DOMAIN pc :
    (Finished(r) /\ loc[r].transcript = JsString("")) =>
      /\ Returned(r)
      /\ Result(r).keywordCounts = ZeroCounts
      /\ Result(r).scores = ZeroScores
      /\ Result(r).ragSegments = <<>>
      /\ Result(r).ragScores = Null
      /\ Result(r).classificationMethod = "keyword-only"
      /\ ~Called(r, "ragClassifier.classifyWithSegments")

\* revaiController answered for the empty transcript with the semantic step
\* enabled
C7_Witness ==
  \E r \in DOMAIN pc :
    /\ req[r].controller = "revai"
    /\ RAG_ENABLED = JsString("true")
    /\ loc[r].transcript = JsString("")
    /\ Returned(r)

(***************************************************************************)
(* Properties of the score normaliser (specification SpecScores).          *)
(***************************************************************************)
CategoryScore ==
  [science |-> "scienceTalk", social |-> "socialTalk",
   literature |-> "literatureTalk", language |-> "languageDevelopment"]

TokenSpans(s) ==
  LET starts == {i \in 0..(Len(s) - 1) :
                   IsWordChar(CharAt(s, i + 1)) /\ (i = 0 \/ ~IsWordChar(CharAt(s, i)))}
      ends == {j \in 1..Len(s) :
                 IsWordChar(CharAt(s, j)) /\ (j = Len(s) \/ ~IsWordChar(CharAt(s, j + 1)))}
  IN {sp \in starts \X ends : sp[1] < sp[2]}

RECURSIVE Fold(_)
Fold(text) ==
  IF Len(text) = 0 THEN ""
  ELSE IF IsWhiteSpace(CharAt(text, 1))
  THEN IF Len(text) > 1 /\ IsWhiteSpace(CharAt(text, 2)) THEN Fold(Tail(text))
       ELSE " " \o Fold(Tail(text))
  ELSE toLowerCaseChar(CharAt(text, 1)) \o Fold(Tail(text))

\* the spans of s with the keyword each reads as
Readings(s) ==
  {[startIndex |-> sp[1], endIndex |-> sp[2], keyword |-> Fold(SubSeq(s, sp[1] + 1, sp[2]))] :
     sp \in TokenSpans(s)}

\* the positions at which a category's list holds a keyword
Entries(list, keyword) == {k \in 1..Len(list) : list[k] = keyword}

\* C8: matching is case-insensitive and whole-word bounded, and a phrase
\* matches across any whitespace run: every segment is an occurrence of a
\* keyword of its category, every occurrence of a keyword of a category is a
\* segment of that category, and a category's count is positive exactly when
\* a keyword of its list occurs.
C8_MatchesAreBoundedOccurrences ==
  NonBlankText(lexCall.transcript) =>
    \E readings \in {Readings(lexCall.transcript.str)} :
      /\ lexCall.segments # Null =>
           LET segs == lexCall.segments[1]
           IN /\ \A k \in 1..Len(segs) :
                   /\ segs[k].text = SubSeq(lexCall.transcript.str,
                                            segs[k].startIndex + 1, segs[k].endIndex)
                   /\ \E rd \in readings :
                        /\ rd.startIndex = segs[k].startIndex
                        /\ rd.endIndex = segs[k].endIndex
                        /\ Entries(KEYWORDS[segs[k].category], rd.keyword) # {}
              /\ \A rd \in readings : \A c \in DOMAIN KEYWORDS :
                   Entries(KEYWORDS[c], rd.keyword) # {} =>
                     \E k \in 1..Len(segs) :
                       /\ segs[k].category = c
                       /\ segs[k].startIndex = rd.startIndex
                       /\ segs[k].endIndex = rd.endIndex
      /\ lexCall.counts # Null =>
           \A c \in DOMAIN KEYWORDS :
             lexCall.counts[1][c] > 0 <=>
               \E rd \in readings : Entries(KEYWORDS[c], rd.keyword) # {}

\* "Talk the <space><tab><newline>end": the capitalised word and the phrase
\* across three kinds of whitespace are both segments
C8_Witness ==
  /\ lexCall.transcript = JsString("Talk the \t\nend")
  /\ lexCall.segments # Null
  /\ \E k \in 1..Len(lexCall.segments[1]) : lexCall.segments[1][k].text = "Talk"
  /\ \E k \in 1..Len(lexCall.segments[1]) : lexCall.segments[1][k].text = "the \t\nend"

OnceUponATime == JsString("once upon a time")

\* C9 (as claimed): the transcript "once upon a time" yields the literature
\* phrase as its one and only match, no match of a constituent word besides.
C9_PhraseIsTheOnlyMatch ==
  lexCall.transcript = OnceUponATime =>
    /\ lexCall.counts # Null => lexCall.counts[1].literature = 1
    /\ lexCall.segments # Null =>
         /\ Len(lexCall.segments[1]) = 1
         /\ lexCall.segments[1][1].text = "once upon a time"

\* C9 (what the code returns): the transcript "once upon a time" yields the
\* literature phrase as one match over the whole text and, besides it, one
\* match of the listed word "once"; "upon", "a" and "time" are not listed and
\* not matched.
C9_PhraseAndListedWordMatch ==
  lexCall.transcript = OnceUponATime =>
    /\ lexCall.counts # Null =>
         lexCall.counts[1] = [science |-> 0, social |-> 0, literature |-> 2, language |-> 0]
    /\ lexCall.segments # Null =>
         lexCall.segments[1] =
           <<[text |-> "once upon a time", category |-> "literature",
              startIndex |-> 0, endIndex |-> 16],
             [text |-> "once", category |-> "literature", startIndex |-> 0, endIndex |-> 4]>>

\* C10: a category's count is the number of pairs of an entry of its list and
\* an occurrence of that entry's keyword, whatever the other categories list;
\* the segments hold, for every category and occurrence, as many segments as
\* the category's list has entries of the keyword, and no segment more.
C10_EveryListingOfEveryOccurrenceCounts ==
  NonBlankText(lexCall.transcript) =>
    \E readings \in {Readings(lexCall.transcript.str)} :
      /\ lexCall.counts # Null =>
           \A c \in DOMAIN KEYWORDS :
             \E list \in {KEYWORDS[c]} :
               lexCall.counts[1][c] =
                 Cardinality({p \in (1..Len(list)) \X readings : list[p[1]] = p[2].keyword})
      /\ lexCall.segments # Null =>
           LET segs == lexCall.segments[1]
           IN /\ \A c \in DOMAIN KEYWORDS : \A rd \in readings :
                   Cardinality({k \in 1..Len(segs) :
                                  /\ segs[k].category = c
                                  /\ segs[k].startIndex = rd.startIndex
                                  /\ segs[k].endIndex = rd.endIndex})
                     = Cardinality(Entries(KEYWORDS[c], rd.keyword))
              /\ \A k \in 1..Len(segs) :
                   \E rd \in readings :
                     rd.startIndex = segs[k].startIndex /\ rd.endIndex = segs[k].endIndex

\* "Talk Talk ": "talk" is listed once for social and twice for language, so
\* its two occurrences count 2 and 4 and make six segments
C10_Witness ==
  /\ lexCall.transcript = JsString("Talk Talk ")
  /\ lexCall.counts = Some([science |-> 0, social |-> 2, literature |-> 0, language |-> 4])
  /\ lexCall.segments # Null
  /\ Len(lexCall.segments[1]) = 6

\* the readings of a keyword, by ascending start offset
RECURSIVE ByPosition(_)
ByPosition(rds) ==
  IF rds = {} THEN <<>>
  ELSE LET first == CHOOSE rd \in rds : \A other \in rds : rd.startIndex <= other.startIndex
       IN <<first>> \o ByPosition(rds \ {first})

\* the segments expected of entries lo..hi of a category's list: entry by
\* entry, each entry's occurrences in s from left to right
RECURSIVE ExpectedOfEntries(_, _, _, _, _, _)
ExpectedOfEntries(list, lo, hi, category, s, readings) ==
  IF lo > hi THEN <<>>
  ELSE IF lo = hi
  THEN LET found == ByPosition({rd \in readings : rd.keyword = list[lo]})
       IN [k \in 1..Len(found) |->
             [text |-> SubSeq(s, found[k].startIndex + 1, found[k].endIndex),
              category |-> category,
              startIndex |-> found[k].startIndex, endIndex |-> found[k].endIndex]]
  ELSE LET mid == (lo + hi) \div 2
       IN ExpectedOfEntries(list, lo, mid, category, s, readings)
            \o ExpectedOfEntries(list, mid + 1, hi, category, s, readings)

ExpectedSegments(s) ==
  LET readings == Readings(s)
      of(c) == ExpectedOfEntries(KEYWORDS[c], 1, Len(KEYWORDS[c]), c, s, readings)
  IN of("science") \o of("social") \o of("literature") \o of("language")

\* C11: extractKeywordSegments returns one entry per match, with offsets into
\* the transcript as given (0 <= startIndex < endIndex <= length, and the text
\* is the transcript from startIndex up to endIndex), in the order of the
\* categories, within a category of the list's entries, and within an entry
\* of the positions in the transcript.
C11_SegmentsHaveExactOffsetsInListOrder ==
  (NonBlankText(lexCall.transcript) /\ lexCall.segments # Null) =>
    LET s == lexCall.transcript.str
        segs == lexCall.segments[1]
    IN /\ \A k \in 1..Len(segs) :
            /\ 0 <= segs[k].startIndex
            /\ segs[k].startIndex < segs[k].endIndex
            /\ segs[k].endIndex <= Len(s)
            /\ segs[k].text = SubSeq(s, segs[k].startIndex + 1, segs[k].endIndex)
       /\ segs = ExpectedSegments(s)

\* "Talk once upon a time": the capital of "Talk" is kept, and the segments
\* come as social, literature (the phrase, then "once"), language (twice)
C11_Witness ==
  /\ lexCall.transcript = JsString("Talk once upon a time")
  /\ lexCall.segments # Null
  /\ Len(lexCall.segments[1]) = 5
  /\ lexCall.segments[1][1] =
       [text |-> "Talk", category |-> "social", startIndex |-> 0, endIndex |-> 4]
  /\ lexCall.segments[1][2] =
       [text |-> "once upon a time", category |-> "literature",
        startIndex |-> 5, endIndex |-> 21]
  /\ lexCall.segments[1][3].text = "once"
  /\ lexCall.segments[1][5].category = "language"

ScientistSentence ==
  JsString("The scientist observed the experiment and made a prediction.")

\* the semantic step is disabled by configuration
SemanticDisabled == RAG_ENABLED \notin EnabledSettings

\* C12 (as claimed): for "The scientist observed the experiment and made a
\* prediction." with the semantic step disabled, the result has a science
\* count of at least 3, at most 1 in every other category, and
\* classificationMethod 'keyword-only'.
C12_ScienceCountAtLeastThree ==
  \A r \in DOMAIN pc :
    (Finished(r) /\ SemanticDisabled /\ loc[r].transcript = ScientistSentence) =>
      /\ Returned(r)
      /\ Result(r).keywordCounts.science >= 3
      /\ Result(r).keywordCounts.social <= 1
      /\ Result(r).keywordCounts.literature <= 1
      /\ Result(r).keywordCounts.language <= 1
      /\ Result(r).classificationMethod = "keyword-only"

\* C12 (amended): for that transcript with the semantic step disabled, the
\* result has a science count of exactly 2 ("scientist" and "experiment";
\* "observed" and "prediction" are no whole-word matches of "observe" and
\* "predict"), 0 in every other category, a science score of 10, the two
\* keyword segments, and classificationMethod 'keyword-only'.
C12_ScienceCountIsTwo ==
  \A r \in DOMAIN pc :
    (Finished(r) /\ SemanticDisabled /\ loc[r].transcript = ScientistSentence) =>
      /\ Returned(r)
      /\ Result(r).keywordCounts =
           [science |-> 2, social |-> 0, literature |-> 0, language |-> 0]
      /\ Result(r).scores =
           [scienceTalk |-> 10, socialTalk |-> 0, literatureTalk |-> 0,
            languageDevelopment |-> 0]
      /\ Result(r).ragSegments =
           <<[text |-> "experiment", category |-> "science",
              startIndex |-> 27, endIndex |-> 37],
             [text |-> "scientist", category |-> "science",
              startIndex |-> 4, endIndex |-> 13]>>
      /\ Result(r).ragScores = Null
      /\ Result(r).classificationMethod = "keyword-only"
      /\ ~Called(r, "ragClassifier.classifyWithSegments")

\* the sentence went through classroomWhisperController with RAG_ENABLED
\* set to "false"
C12_Witness ==
  \E r \in DOMAIN pc :
    /\ req[r].controller = "classroom"
    /\ RAG_ENABLED = JsString("false")
    /\ loc[r].transcript = ScientistSentence
    /\ Returned(r)
    /\ Result(r).keywordCounts.science = 2

\* the analysis of request r's transcript run from the lexical stage to the
\* selection of the segments with no other request in flight, under the same
\* setting and the same answer of the classifier
AnalysedAlone(r) ==
  LET controller == req[r].controller
      fresh == [pc |-> "revai.transcribeFromFile", loc |-> NoLocals, res |-> Null,
                disk |-> TRUE, semantic |-> [state |-> "none", outcome |-> Null],
                log |-> <<>>, thrown |-> Null]
      guarded == SemanticGuard(LexicalStage(GetTranscript(fresh, loc[r].transcript)),
                               RAG_ENABLED)
      stepped == IF Suspended(guarded)
                 THEN SemanticStep(controller, guarded, semantic[r].outcome[1])
                 ELSE guarded
  IN SelectSegments(stepped).loc

\* the step leaves every request but one as it was, and the configuration too
OneRequestSteps ==
  \E r \in DOMAIN pc :
    /\ \A q \in DOMAIN pc \ {r} :
         /\ pc'[q] = pc[q] /\ loc'[q] = loc[q] /\ res'[q] = res[q]
         /\ disk'[q] = disk[q] /\ semantic'[q] = semantic[q] /\ log'[q] = log[q]
    /\ RAG_ENABLED' = RAG_ENABLED
    /\ req' = req

\* the counts, scores, segments and method of r's result are those of its own
\* transcript analysed alone
ResultIsOwnAnalysis(r) ==
  Returned(r) =>
    \E alone \in {AnalysedAlone(r)} :
       /\ Result(r).transcript = loc[r].transcript
       /\ Result(r).keywordCounts = alone.keywordCounts[1]
       /\ Result(r).scores = alone.finalScores[1]
       /\ Result(r).ragScores = alone.ragScores
       /\ Result(r).ragSegments = alone.ragSegments[1]
       /\ Result(r).classificationMethod =
            (IF alone.ragScores # Null THEN "hybrid" ELSE "keyword-only")
       /\ Result(r).assessment.owner =
            (IF req[r].controller = "revai" THEN req[r].body.childId
             ELSE IF req[r].user.role = "teacher" THEN req[r].user.id
             ELSE req[r].body.teacherId)

\* C13: analyses are independent and stateless: with several requests in
\* flight and their steps interleaved in any order, suspension at the
\* semantic call included, every result's counts, scores, segments and method
\* are those the same transcript yields when analysed alone under the same
\* configuration and classifier answer, counting and locating again on the
\* same transcript gives the same values, and no step of one request changes
\* what another request reads.
C13_ConcurrentAnalysesAreIndependent ==
  /\ [](\A r \in DOMAIN pc : ResultIsOwnAnalysis(r))
  /\ [][OneRequestSteps]_vars

\* two requests were answered with different hybrid and keyword-only results,
\* the first to be suspended at the semantic call being the last to finish
C13_Witness ==
  /\ Cardinality(DOMAIN pc) > 1
  /\ Returned(1) /\ Returned(2)
  /\ loc[1].transcript = JsString("Talk once upon a time")
  /\ loc[2].transcript = JsString("the cat sat")
  /\ Result(1).classificationMethod = "hybrid"
  /\ Result(2).classificationMethod = "keyword-only"
  /\ semantic[1].outcome # Null /\ semantic[2].outcome # Null
  /\ Result(1).keywordCounts # Result(2).keywordCounts

\* the handler of r has sent its response
Answered(r) == pc[r] = "done" /\ res[r] # Null

AudioFileRequired == "Audio file is required. Please select an audio file to upload."

\* C14 (as claimed): every request of the classroom upload that carries no
\* audio file is answered 400 with the message about the required audio file,
\* whatever teacherId it carries (an id of no teacher included), and no
\* transcription is started.
C14_NoFileIsAlwaysRejectedWith400 ==
  \A r \in DOMAIN pc :
    (req[r].controller = "classroom" /\ req[r].file = "none") =>
      /\ ~Called(r, "revai.transcribeFromFile")
      /\ Answered(r) => /\ res[r][1].status = 400
                        /\ res[r][1].message = AudioFileRequired

\* what the code does for a request without a file: no transcription is
\* started; a teacher is answered 400 with the audio-file message; an admin is
\* answered that only once the teacherId is there, names a stored teacher and
\* fits the center, and otherwise 400 (other message), 404 or 500; any other
\* role is answered 403
C14_NoFileIsRejectedAfterTheTeacherChecks ==
  \A r \in DOMAIN pc :
    (req[r].controller = "classroom" /\ req[r].file = "none") =>
      /\ ~Called(r, "revai.transcribeFromFile")
      /\ Answered(r) =>
           LET role == req[r].user.role
               body == req[r].body
               teacher == findById(body.teacherId)
           IN /\ res[r][1].status \in {400, 403, 404, 500}
              /\ role = "teacher" =>
                   res[r][1].status = 400 /\ res[r][1].message = AudioFileRequired
              /\ role \notin {"teacher", "admin"} => res[r][1].status = 403
              /\ (role = "admin" /\ body.teacherId # "" /\ teacher = Null) =>
                   res[r][1].status \in {404, 500}
              /\ (res[r][1].status = 400 /\ res[r][1].message = AudioFileRequired
                    /\ role = "admin") =>
                   /\ teacher # Null
                   /\ body.center # "" => teacher[1].center = body.center

\* C15: every 200 result of the classroom upload carries an authorised
\* teacherId: for a teacher it is the caller's own id whatever teacherId the
\* body holds; for an admin it is the body's teacherId, which is present,
\* names a stored teacher and, when a center was given, belongs to that
\* center; a caller of any other role never gets a 200 result and never
\* triggers transcription.
C15_ResultCarriesAuthorisedTeacher ==
  \A r \in DOMAIN pc :
    req[r].controller = "classroom" =>
      LET role == req[r].user.role
          body == req[r].body
          teacher == findById(body.teacherId)
      IN /\ (Returned(r) /\ role = "teacher") =>
              Result(r).assessment.owner = req[r].user.id
         /\ (Returned(r) /\ role = "admin") =>
              /\ body.teacherId # ""
              /\ Result(r).assessment.owner = body.teacherId
              /\ teacher # Null
              /\ body.center # "" => teacher[1].center = body.center
         /\ role \notin {"teacher", "admin"} =>
              /\ ~Returned(r)
              /\ ~Called(r, "revai.transcribeFromFile")
              /\ Answered(r) => res[r][1].status = 403

\* an admin's upload for teacher t1 of center c1 got its 200 result
C15_Witness ==
  \E r \in DOMAIN pc :
    /\ req[r].controller = "classroom"
    /\ req[r].user.role = "admin"
    /\ req[r].body.teacherId = "t1" /\ req[r].body.center = "c1"
    /\ Returned(r)
    /\ Result(r).assessment.owner = "t1"


\* fs.unlinkSync was called on r's upload before the response was sent
DeletedBeforeResponse(r) ==
  /\ Called(r, "fs.unlinkSync")
  /\ CalledBefore(r, "fs.unlinkSync", "res.json")

\* C16 (as claimed): for every request that arrived with an uploaded audio
\* file, on every path on which the controller sends its response (validation
\* rejection, success or error), the file has been removed from disk before
\* the response is sent, unless the delete call itself failed.
C16_UploadIsDeletedBeforeEveryResponse ==
  \A r \in DOMAIN pc :
    (req[r].file = "uploaded" /\ Answered(r)) =>
      DeletedBeforeResponse(r)

\* what the code does: the upload is deleted before the response on the paths
\* that come after the assignment of filePath (success and errors from the
\* transcription on); the rejections before it leave the file on disk
C16_UploadIsDeletedOncePathIsKnown ==
  \A r \in DOMAIN pc :
    (req[r].file = "uploaded" /\ Answered(r)) =>
      /\ loc[r].filePath # Null => DeletedBeforeResponse(r)
      /\ loc[r].filePath = Null => (disk[r] /\ ~Called(r, "fs.unlinkSync"))

\* the number of segments of category c
SegmentsOfCategory(segs, c) == Cardinality({k \in 1..Len(segs) : segs[k].category = c})

\* every character of s is an ASCII character
IsAscii(s) == \A i \in 1..Len(s) : CharAt(s, i) # KelvinSign

\* C17 (as claimed): for every transcript and every category c, the count
\* analyzeTranscript reports for c is the number of segments
\* extractKeywordSegments returns with category c, a keyword listed more than
\* once contributing once per listing in both.
C17_CountsAgreeWithSegments ==
  (lexCall # Null /\ lexCall.counts # Null /\ lexCall.segments # Null) =>
    \A c \in DOMAIN KEYWORDS :
      lexCall.counts[1][c] = SegmentsOfCategory(lexCall.segments[1], c)

\* what the code does: the counts and the segments agree on every transcript
\* of ASCII characters
C17_CountsAgreeWithSegmentsOnAscii ==
  (lexCall # Null /\ lexCall.counts # Null /\ lexCall.segments # Null
     /\ IsString(lexCall.transcript) /\ IsAscii(lexCall.transcript.str)) =>
    \A c \in DOMAIN KEYWORDS :
      lexCall.counts[1][c] = SegmentsOfCategory(lexCall.segments[1], c)
====
